---- MODULE Spec2Model ----
(***************************************************************************)
(* Model of crash_vm/asm.py: the two-pass assembler of the crash VM.       *)
(*                                                                         *)
(* A source line is a sequence of one-character strings.  The regular      *)
(* expressions of asm.py are modelled as the sets of positions at which a  *)
(* sub-pattern can end, so that backtracking is covered: a pattern matches *)
(* a line when some combination of end positions reaches the end of line.  *)
(* compile is a state machine: the parse loop, pass 1 (label table), pass  *)
(* 2 (resolve and emit) and the return, one step per loop iteration.       *)
(***************************************************************************)
EXTENDS Integers, Sequences, FiniteSets, TLC

(* ---------------------------------------------------------------------- *)
(* Bounds of the model                                                     *)
(* ---------------------------------------------------------------------- *)
MaxLines == 3

(* ---------------------------------------------------------------------- *)
(* crash_vm/_types.py and crash_vm/cpu.py (imported by asm.py)             *)
(* ---------------------------------------------------------------------- *)
\* Address is an unsigned machine integer: Address(v).value is v reduced
\* modulo the size of the address range (asm.py compares value with
\* Address(value).value to detect a value out of range).
AddressModulus == 16

Address(v) == v % AddressModulus

\* NativeNumber is a signed machine integer of the same width.
NativeModulus == 16

NativeNumber(v) == ((v + NativeModulus \div 2) % NativeModulus) - NativeModulus \div 2

\* The instruction catalog: the opcode names and their argument counts.
OpADD == <<"A", "D", "D">>
OpJMP == <<"J", "M", "P">>
OpNOP == <<"N", "O", "P">>

Instructions == {OpADD, OpJMP, OpNOP}

instruction_methods == [i \in Instructions |->
    IF i = OpADD THEN 2 ELSE IF i = OpJMP THEN 1 ELSE 0]

(* ---------------------------------------------------------------------- *)
(* Character classes of the patterns                                       *)
(* ---------------------------------------------------------------------- *)
Digits == {"0", "1", "2", "3", "4", "5", "6", "7", "8", "9"}

HexLetters == {"a", "b", "c", "d", "e", "f", "A", "B", "C", "D", "E", "F"}

HexDigits == Digits \cup HexLetters

IDENTIFIER_FIRST_CHARACTER ==
    {"a", "b", "c", "d", "e", "f", "g", "h", "i", "j", "k", "l", "m",
     "n", "o", "p", "q", "r", "s", "t", "u", "v", "w", "x", "y", "z",
     "A", "B", "C", "D", "E", "F", "G", "H", "I", "J", "K", "L", "M",
     "N", "O", "P", "Q", "R", "S", "T", "U", "V", "W", "X", "Y", "Z", "_"}

IDENTIFIER_CHARACTER == IDENTIFIER_FIRST_CHARACTER \cup Digits

SPACER_CHARACTER == {" ", "\t"}

Sub(s, i, j) == SubSeq(s, i, j - 1)

\* The positions j >= i such that s[i..j-1] consists of characters of cs.
RunEnds(s, i, cs) == {j \in i..(Len(s) + 1) : \A m \in i..(j - 1) : s[m] \in cs}

\* The literal text w occurs in s at position i.
LiteralAt(s, i, w) ==
    /\ i + Len(w) - 1 <= Len(s)
    /\ \A m \in 1..Len(w) : s[i + m - 1] = w[m]

(* ---------------------------------------------------------------------- *)
(* The patterns: each operator is the set of positions where a match that  *)
(* starts at i can end                                                     *)
(* ---------------------------------------------------------------------- *)
\* [\-\+]?
SignEnds(s, i) ==
    {i} \cup (IF i <= Len(s) /\ s[i] \in {"-", "+"} THEN {i + 1} ELSE {})

\* [\-\+]?(?:\d+)
DEC_NUMBER_PATTERN(s, i) ==
    UNION {RunEnds(s, k, Digits) \ {k} : k \in SignEnds(s, i)}

\* [\-\+]?(?:0x[0-9a-fA-F]+)
HEX_NUMBER_PATTERN(s, i) ==
    UNION {IF LiteralAt(s, k, <<"0", "x">>)
           THEN RunEnds(s, k + 2, HexDigits) \ {k + 2}
           ELSE {} : k \in SignEnds(s, i)}

NUMBER_PATTERN(s, i) == DEC_NUMBER_PATTERN(s, i) \cup HEX_NUMBER_PATTERN(s, i)

ADDRESS_LITERAL_PATTERN(s, i) == NUMBER_PATTERN(s, i)

\* LABEL_PATTERN with the colon optional: [a-zA-Z_][a-zA-Z_0-9]*:?
LABEL_PATTERN_ColonOptional(s, i) ==
    IF i <= Len(s) /\ s[i] \in IDENTIFIER_FIRST_CHARACTER
    THEN UNION {IF k <= Len(s) /\ s[k] = ":" THEN {k, k + 1} ELSE {k} :
                k \in RunEnds(s, i + 1, IDENTIFIER_CHARACTER)}
    ELSE {}

\* [a-zA-Z_][a-zA-Z_0-9]*:
LABEL_PATTERN(s, i) ==
    IF i <= Len(s) /\ s[i] \in IDENTIFIER_FIRST_CHARACTER
    THEN {j + 1 : j \in {k \in RunEnds(s, i + 1, IDENTIFIER_CHARACTER) :
                           k <= Len(s) /\ s[k] = ":"}}
    ELSE {}

ADDRESS_PATTERN(s, i) == ADDRESS_LITERAL_PATTERN(s, i) \cup LABEL_PATTERN(s, i)

\* ^[ \t]*
INDENTATION_PATTERN(s) == RunEnds(s, 1, SPACER_CHARACTER)

\* [ \t]*(?:#.*)?$  matches at i
LINE_END_PATTERN(s, i) ==
    \E j \in RunEnds(s, i, SPACER_CHARACTER) :
        j = Len(s) + 1 \/ s[j] = "#"

\* (?: +ADDRESS_PATTERN)*
RECURSIVE ArgsEnds(_, _)
ArgsEnds(s, i) ==
    {i} \cup UNION {ArgsEnds(s, j) :
        j \in UNION {ADDRESS_PATTERN(s, q) : q \in RunEnds(s, i, {" "}) \ {i}}}

(* ---------------------------------------------------------------------- *)
(* The line patterns: each operator is the set of match.groups() tuples of *)
(* the matches of the pattern against the whole line s                     *)
(* ---------------------------------------------------------------------- *)
KwOffset == <<"O", "f", "f", "s", "e", "t">>

EmptyLinePattern(s) ==
    {<<>> : p \in {e \in INDENTATION_PATTERN(s) : LINE_END_PATTERN(s, e)}}

OffsetLinePattern(s) ==
    UNION {UNION {{<<Sub(s, q, j)>> :
                      j \in {e \in ADDRESS_LITERAL_PATTERN(s, q) : LINE_END_PATTERN(s, e)}} :
                  q \in IF LiteralAt(s, p, KwOffset)
                        THEN RunEnds(s, p + 6, SPACER_CHARACTER) \ {p + 6}
                        ELSE {}} :
           p \in INDENTATION_PATTERN(s)}

ValueLinePattern(s) ==
    UNION {{<<Sub(s, p, j)>> :
               j \in {e \in NUMBER_PATTERN(s, p) : LINE_END_PATTERN(s, e)}} :
           p \in INDENTATION_PATTERN(s)}

InstructionLinePattern(s) ==
    UNION {UNION {{<<i, Sub(s, p + Len(i), j)>> :
                      j \in {e \in ArgsEnds(s, p + Len(i)) : LINE_END_PATTERN(s, e)}} :
                  i \in {n \in Instructions : LiteralAt(s, p, n)}} :
           p \in INDENTATION_PATTERN(s)}

LabelLinePattern(s) ==
    UNION {{<<Sub(s, p, j)>> :
               j \in {e \in LABEL_PATTERN(s, p) : LINE_END_PATTERN(s, e)}} :
           p \in INDENTATION_PATTERN(s)}

\* The classes in the order parse tries them.
classes == <<"EmptyLine", "OffsetLine", "ValueLine", "InstructionLine", "LabelLine">>

Pattern(c, s) ==
    CASE c = "EmptyLine" -> EmptyLinePattern(s)
      [] c = "OffsetLine" -> OffsetLinePattern(s)
      [] c = "ValueLine" -> ValueLinePattern(s)
      [] c = "InstructionLine" -> InstructionLinePattern(s)
      [] c = "LabelLine" -> LabelLinePattern(s)

\* next(filter(...)): the first class whose pattern matches, with the groups
\* of the match; cls = "" when no class matches (StopIteration).
Classify(s) ==
    LET hits == {k \in 1..Len(classes) : Pattern(classes[k], s) # {}}
    IN IF hits = {}
       THEN [cls |-> "", groups |-> <<>>]
       ELSE LET k == CHOOSE h \in hits : \A o \in hits : h <= o
            IN [cls |-> classes[k], groups |-> CHOOSE g \in Pattern(classes[k], s) : TRUE]

(* ---------------------------------------------------------------------- *)
(* Python string and integer primitives used by asm.py                     *)
(* ---------------------------------------------------------------------- *)
\* str.strip(): drop leading and trailing whitespace.
strip(s) ==
    LET keep == {k \in 1..Len(s) : s[k] \notin SPACER_CHARACTER}
    IN IF keep = {}
       THEN <<>>
       ELSE SubSeq(s, CHOOSE a \in keep : \A o \in keep : a <= o,
                      CHOOSE b \in keep : \A o \in keep : b >= o)

\* str.split(' '): cut at every single space; adjacent spaces give empty strings.
RECURSIVE split(_)
split(s) ==
    LET at == {k \in 1..Len(s) : s[k] = " "}
    IN IF at = {}
       THEN <<s>>
       ELSE LET k == CHOOSE a \in at : \A o \in at : a <= o
            IN <<SubSeq(s, 1, k - 1)>> \o split(SubSeq(s, k + 1, Len(s)))

DigitValue(c) ==
    CASE c = "0" -> 0 [] c = "1" -> 1 [] c = "2" -> 2 [] c = "3" -> 3
      [] c = "4" -> 4 [] c = "5" -> 5 [] c = "6" -> 6 [] c = "7" -> 7
      [] c = "8" -> 8 [] c = "9" -> 9
      [] c \in {"a", "A"} -> 10 [] c \in {"b", "B"} -> 11
      [] c \in {"c", "C"} -> 12 [] c \in {"d", "D"} -> 13
      [] c \in {"e", "E"} -> 14 [] c \in {"f", "F"} -> 15

RECURSIVE DigitsValue(_, _)
DigitsValue(ds, base) ==
    IF ds = <<>>
    THEN 0
    ELSE DigitsValue(SubSeq(ds, 1, Len(ds) - 1), base) * base + DigitValue(ds[Len(ds)])

\* The digits of an integer literal: the text after the sign and, in base
\* 16, after the 0x prefix.
IntDigits(s, base) ==
    LET k == IF s # <<>> /\ s[1] \in {"-", "+"} THEN 2 ELSE 1
        d == IF base = 16 /\ LiteralAt(s, k, <<"0", "x">>) THEN k + 2 ELSE k
    IN SubSeq(s, d, Len(s))

\* int(s, base): ok is FALSE where Python raises ValueError.
int(s, base) ==
    LET ds == IntDigits(s, base)
        valid == ds # <<>> /\ \A m \in 1..Len(ds) :
                     ds[m] \in (IF base = 16 THEN HexDigits ELSE Digits)
    IN IF valid
       THEN [ok |-> TRUE,
             val |-> (IF s[1] = "-" THEN -1 ELSE 1) * DigitsValue(ds, base),
             err |-> ""]
       ELSE [ok |-> FALSE, val |-> 0, err |-> "ValueError"]

(* ---------------------------------------------------------------------- *)
(* Value types                                                             *)
(* ---------------------------------------------------------------------- *)
\* The texts of the CompilationError messages.
ErrOutOfRange == "Value is out of range"
ErrInvalidNumber == "Invalid number value"
ErrInvalidAddress == "Invalid address value"
ErrInvalidLabel == "Invalid label"
ErrInvalidOffset == "Inavalid offset"
ErrInvalidSyntax == "Invalid syntax"
ErrInvalidInstruction == "Invalid instruction"
ErrArity == "Instruction takes a different number of arguments"

CompilationErrors == {ErrOutOfRange, ErrInvalidNumber, ErrInvalidAddress, ErrInvalidLabel,
                      ErrInvalidOffset, ErrInvalidSyntax, ErrInvalidInstruction, ErrArity}

Ok(v) == [ok |-> TRUE, val |-> v, err |-> ""]

Raise(e) == [ok |-> FALSE, val |-> 0, err |-> e]

int_to_native_number(value) ==
    IF value # NativeNumber(value) THEN Raise(ErrOutOfRange) ELSE Ok(NativeNumber(value))

int_to_address(value) ==
    IF value # Address(value) THEN Raise(ErrOutOfRange) ELSE Ok(Address(value))

parse_number(number_str) ==
    IF HEX_NUMBER_PATTERN(number_str, 1) # {}
    THEN LET v == int(number_str, 16) IN IF v.ok THEN int_to_native_number(v.val) ELSE v
    ELSE IF NUMBER_PATTERN(number_str, 1) # {}
    THEN LET v == int(number_str, 10) IN IF v.ok THEN int_to_native_number(v.val) ELSE v
    ELSE Raise(ErrInvalidNumber)

parse_address_literal(address_str) ==
    IF HEX_NUMBER_PATTERN(address_str, 1) # {}
    THEN LET v == int(address_str, 16) IN IF v.ok THEN int_to_address(v.val) ELSE v
    ELSE IF NUMBER_PATTERN(address_str, 1) # {}
    THEN LET v == int(address_str, 10) IN IF v.ok THEN int_to_address(v.val) ELSE v
    ELSE Raise(ErrInvalidAddress)

\* The words of the output: an opcode, a number, an address, or a label
\* that pass 2 has to resolve.
OpWord(i) == [t |-> "op", n |-> 0, s |-> i]

NumWord(v) == [t |-> "num", n |-> v, s |-> <<>>]

AddrWord(a) == [t |-> "addr", n |-> a, s |-> <<>>]

LabelWord(l) == [t |-> "label", n |-> 0, s |-> l]

\* Label(string_value): the whole string has to match LABEL_PATTERN.
Label(string_value) ==
    IF (Len(string_value) + 1) \in LABEL_PATTERN(string_value, 1)
    THEN Ok(LabelWord(string_value))
    ELSE [ok |-> FALSE, val |-> LabelWord(<<>>), err |-> ErrInvalidLabel]

\* parse_address(address_str) as InstructionLine calls it, without a label
\* table: a CompilationError of parse_address_literal is swallowed, any
\* other exception propagates.
parse_address(address_str) ==
    LET lit == parse_address_literal(address_str)
    IN IF lit.ok
       THEN Ok(AddrWord(lit.val))
       ELSE IF lit.err \notin CompilationErrors
       THEN [ok |-> FALSE, val |-> LabelWord(<<>>), err |-> lit.err]
       ELSE IF LABEL_PATTERN(address_str, 1) # {}
       THEN Label(address_str)
       ELSE [ok |-> FALSE, val |-> LabelWord(<<>>), err |-> ErrInvalidAddress]

(* ---------------------------------------------------------------------- *)
(* Line model                                                              *)
(* ---------------------------------------------------------------------- *)
\* Line.__init__: a line object; the fields a class does not set keep the
\* defaults.
Line(cls, address) ==
    [cls |-> cls, address |-> address, offset |-> 0, label |-> <<>>,
     value |-> 0, instruction |-> <<>>, args |-> <<>>]

Built(line) == [ok |-> TRUE, line |-> line, err |-> ""]

Failed(e) == [ok |-> FALSE, line |-> Line("", 0), err |-> e]

EmptyLine(address) == Built(Line("EmptyLine", address))

\* The comparison of OffsetLine.__init__ with <= in place of <.
OffsetBehindOrAt(offset, address) == offset <= address

\* The comparison of OffsetLine.__init__: TRUE when the target lies before
\* the line's address.
OffsetBehind(offset, address) == offset < address

OffsetLine(address, offset_str) ==
    LET offset == parse_address_literal(offset_str)
    IN IF ~offset.ok
       THEN Failed(offset.err)
       ELSE IF OffsetBehind(offset.val, address)
       THEN Failed(ErrInvalidOffset)
       ELSE Built([Line("OffsetLine", address) EXCEPT !.offset = offset.val])

LabelLine(address, identifier) ==
    LET label == Label(identifier)
    IN IF ~label.ok
       THEN Failed(label.err)
       ELSE Built([Line("LabelLine", address) EXCEPT !.label = label.val.s])

ValueLine(address, value) ==
    LET number == parse_number(value)
    IN IF ~number.ok
       THEN Failed(number.err)
       ELSE Built([Line("ValueLine", address) EXCEPT !.value = number.val])

\* args_str.strip().split(' ') if args_str else []
SplitArgs(args_str) == IF args_str # <<>> THEN split(strip(args_str)) ELSE <<>>

InstructionLine(address, instruction_name, args_str) ==
    LET args == SplitArgs(args_str)
        parsedArgs == [k \in 1..Len(args) |-> parse_address(args[k])]
        bad == {k \in 1..Len(args) : ~parsedArgs[k].ok}
    IN IF instruction_name \notin Instructions
       THEN Failed(ErrInvalidInstruction)
       ELSE IF instruction_methods[instruction_name] # Len(args)
       THEN Failed(ErrArity)
       ELSE IF bad # {}
       THEN Failed(parsedArgs[CHOOSE k \in bad : \A o \in bad : k <= o].err)
       ELSE Built([Line("InstructionLine", address) EXCEPT
                      !.instruction = instruction_name,
                      !.args = [k \in 1..Len(args) |-> parsedArgs[k].val]])

\* cls(Address(line_address), *match.groups())
Construct(cls, address, groups) ==
    CASE cls = "EmptyLine" -> EmptyLine(address)
      [] cls = "OffsetLine" -> OffsetLine(address, groups[1])
      [] cls = "ValueLine" -> ValueLine(address, groups[1])
      [] cls = "InstructionLine" -> InstructionLine(address, groups[1], groups[2])
      [] cls = "LabelLine" -> LabelLine(address, groups[1])

produced_bytes_padded_num(line) ==
    CASE line.cls = "OffsetLine" -> line.offset - line.address
      [] line.cls = "ValueLine" -> 1
      [] line.cls = "InstructionLine" -> 1 + Len(line.args)
      [] OTHER -> 0

produced_bytes(line) ==
    CASE line.cls = "ValueLine" -> <<NumWord(line.value)>>
      [] line.cls = "InstructionLine" -> <<OpWord(line.instruction)>> \o line.args
      [] OTHER -> <<>>

\* The padding of produce_bytes_padded: n words NativeNumber(0).
Padding(n) == [k \in 1..n |-> NumWord(NativeNumber(0))]

\* produce_bytes_padded: ok is FALSE where the RuntimeError is raised.
produce_bytes_padded(line) ==
    LET produced == produced_bytes(line)
        produced_len == Len(produced)
        padded_num == produced_bytes_padded_num(line)
    IN IF produced_len > padded_num
       THEN [ok |-> FALSE, words |-> <<>>]
       ELSE [ok |-> TRUE, words |-> produced \o Padding(padded_num - produced_len)]

(* ---------------------------------------------------------------------- *)
(* The source lines the model assembles                                    *)
(* ---------------------------------------------------------------------- *)
TxtEmpty == <<>>
TxtLabelFoo == <<"f", "o", "o", ":">>
TxtFive == <<"5">>
TxtSeven == <<"7">>
TxtOffset3 == <<"O", "f", "f", "s", "e", "t", " ", "3">>
TxtOffset0 == <<"O", "f", "f", "s", "e", "t", " ", "0">>
TxtOffsetMax == <<"O", "f", "f", "s", "e", "t", " ", "0", "x", "F">>
TxtOffsetBig == <<"O", "f", "f", "s", "e", "t", " ", "9", "9">>
TxtAddLabel == <<" ", " ", "A", "D", "D", " ", "f", "o", "o", ":", " ", "0">>
TxtAddBare == <<" ", " ", "A", "D", "D", " ", "f", "o", "o", " ", "0">>
TxtAddTwoSpaces == <<"A", "D", "D", " ", "1", " ", " ", "2">>
TxtAddOneArg == <<"A", "D", "D", " ", "1">>
TxtJmp == <<"J", "M", "P", " ", "2", " ", "#", "c">>
TxtNop == <<"N", "O", "P">>
TxtLabelBar == <<"b", "a", "r", ":">>
TxtJmpBar == <<"J", "M", "P", " ", "b", "a", "r", ":">>
TxtBigValue == <<"9", "9">>
TxtBadOp == <<"B", "A", "D", "O", "P", " ", "1">>

LineTexts == {TxtEmpty, TxtLabelFoo, TxtFive, TxtSeven, TxtOffset3, TxtOffset0,
              TxtOffsetMax, TxtOffsetBig, TxtAddLabel, TxtAddBare, TxtAddTwoSpaces,
              TxtAddOneArg, TxtJmp, TxtNop, TxtLabelBar, TxtJmpBar, TxtBigValue,
              TxtBadOp}

Programs == UNION {[1..n -> LineTexts] : n \in 0..MaxLines}

\* The classification of every source line of the model.
Classified == [s \in LineTexts |-> Classify(s)]

(* ---------------------------------------------------------------------- *)
(* compile(lines) as a state machine                                       *)
(* ---------------------------------------------------------------------- *)
VARIABLES
    lines,          \* the argument of compile: the list of source lines
    pc,             \* "parse", "pass1", "pass2" or "done"
    line_number,    \* parse: the number of the line the loop is at
    line_address,   \* parse: the running address counter
    parsed,         \* compile: the Line objects collected from parse
    labels,         \* compile: the label table
    index,          \* the position of pass 1 and of pass 2 in parsed
    compiled,       \* the words pass 2 has built so far
    result          \* what compile hands to its caller

vars == <<lines, pc, line_number, line_address, parsed, labels, index, compiled, result>>

NoResult == [kind |-> "none", line |-> 0, text |-> "", words |-> <<>>]

\* compile returns the word list.
Output(words) == [kind |-> "output", line |-> 0, text |-> "", words |-> words]

\* An exception leaves compile; line is the number of the 'Line <N>: '
\* prefix of the message, 0 for a message without the prefix.
Exception(kind, line, text) == [kind |-> kind, line |-> line, text |-> text, words |-> <<>>]

\* The except-clause of parse counting the lines from 0.
AnnotateFromZero(err, number) ==
    IF err \in CompilationErrors
    THEN Exception("CompilationError", number - 1, err)
    ELSE Exception(err, 0, err)

\* parse, except-clause: a CompilationError gets the line number prefixed,
\* any other exception passes through as it is.
Annotate(err, number) ==
    IF err \in CompilationErrors
    THEN Exception("CompilationError", number, err)
    ELSE Exception(err, 0, err)

\* One iteration of the loop of parse on the line at line_number.
ParseOne(line, address) ==
    LET c == Classified[line]
    IN IF c.cls = "" THEN Failed(ErrInvalidSyntax) ELSE Construct(c.cls, address, c.groups)

Init ==
    /\ lines \in Programs
    /\ pc = "parse"
    /\ line_number = 1
    /\ line_address = 0
    /\ parsed = <<>>
    /\ labels = <<>>
    /\ index = 1
    /\ compiled = <<>>
    /\ result = NoResult

\* parse yields the next line.
ParseLine ==
    /\ pc = "parse"
    /\ line_number <= Len(lines)
    /\ LET r == ParseOne(lines[line_number], Address(line_address))
       IN /\ r.ok
          /\ parsed' = Append(parsed, r.line)
          /\ line_address' = line_address + produced_bytes_padded_num(r.line)
    /\ line_number' = line_number + 1
    /\ UNCHANGED <<lines, pc, labels, index, compiled, result>>

\* parse raises on the line at line_number; list(parse(lines)) and compile
\* end with the exception.
ParseFail ==
    /\ pc = "parse"
    /\ line_number <= Len(lines)
    /\ LET r == ParseOne(lines[line_number], Address(line_address))
       IN /\ ~r.ok
          /\ result' = Annotate(r.err, line_number)
    /\ pc' = "done"
    /\ UNCHANGED <<lines, line_number, line_address, parsed, labels, index, compiled>>

\* The lines are exhausted: parsed is complete and pass 1 starts.
ParseEnd ==
    /\ pc = "parse"
    /\ line_number > Len(lines)
    /\ pc' = "pass1"
    /\ index' = 1
    /\ UNCHANGED <<lines, line_number, line_address, parsed, labels, compiled, result>>

\* The dict comprehension binds key to value, replacing a binding the key has.
Bind(table, key, value) ==
    [k \in (DOMAIN table) \cup {key} |-> IF k = key THEN value ELSE table[k]]

\* Pass 1, one line: a LabelLine enters the table, any other line is skipped.
CollectLabel ==
    /\ pc = "pass1"
    /\ index <= Len(parsed)
    /\ labels' = IF parsed[index].cls = "LabelLine"
                 THEN Bind(labels, parsed[index].label, parsed[index].address)
                 ELSE labels
    /\ index' = index + 1
    /\ UNCHANGED <<lines, pc, line_number, line_address, parsed, compiled, result>>

Pass1End ==
    /\ pc = "pass1"
    /\ index > Len(parsed)
    /\ pc' = "pass2"
    /\ index' = 1
    /\ UNCHANGED <<lines, line_number, line_address, parsed, labels, compiled, result>>

\* resolve that passes every word through.
resolvePassThrough(byte, table) == [ok |-> TRUE, word |-> byte]

\* resolve(byte): ok is FALSE where labels[byte] raises KeyError.
resolve(byte, table) ==
    IF byte.t = "label"
    THEN IF byte.s \in DOMAIN table
         THEN [ok |-> TRUE, word |-> AddrWord(table[byte.s])]
         ELSE [ok |-> FALSE, word |-> byte]
    ELSE [ok |-> TRUE, word |-> byte]

\* [resolve(byte) for byte in line.produce_bytes_padded()]
ResolveLine(line, table) ==
    LET padded == produce_bytes_padded(line)
        words == [k \in 1..Len(padded.words) |-> resolve(padded.words[k], table)]
    IN IF ~padded.ok
       THEN [ok |-> FALSE, err |-> "RuntimeError", words |-> <<>>]
       ELSE IF \E k \in 1..Len(words) : ~words[k].ok
       THEN [ok |-> FALSE, err |-> "KeyError", words |-> <<>>]
       ELSE [ok |-> TRUE, err |-> "", words |-> [k \in 1..Len(words) |-> words[k].word]]

\* Pass 2 that swallows the exception and returns the words built so far.
ReturnBuilt(err, built) == Output(built)

\* An exception raised inside the comprehensions of pass 2 leaves compile;
\* the words built so far are dropped with the frame.
Propagate(err, built) == Exception(err, 0, err)

\* Pass 2, one line: its padded words, resolved, join the output.
EmitLine ==
    /\ pc = "pass2"
    /\ index <= Len(parsed)
    /\ LET r == ResolveLine(parsed[index], labels)
       IN /\ r.ok
          /\ compiled' = compiled \o r.words
    /\ index' = index + 1
    /\ UNCHANGED <<lines, pc, line_number, line_address, parsed, labels, result>>

\* Pass 2 raises on the line at index.
EmitFail ==
    /\ pc = "pass2"
    /\ index <= Len(parsed)
    /\ LET r == ResolveLine(parsed[index], labels)
       IN /\ ~r.ok
          /\ result' = Propagate(r.err, compiled)
    /\ pc' = "done"
    /\ UNCHANGED <<lines, line_number, line_address, parsed, labels, index, compiled>>

\* compile returns the list.
Return ==
    /\ pc = "pass2"
    /\ index > Len(parsed)
    /\ result' = Output(compiled)
    /\ pc' = "done"
    /\ UNCHANGED <<lines, line_number, line_address, parsed, labels, index, compiled>>

Next ==
    \/ ParseLine
    \/ ParseFail
    \/ ParseEnd
    \/ CollectLabel
    \/ Pass1End
    \/ EmitLine
    \/ EmitFail
    \/ Return

Spec == Init /\ [][Next]_vars

(* ---------------------------------------------------------------------- *)
(* Notions the properties are stated with                                  *)
(* ---------------------------------------------------------------------- *)
\* parse accepted every line of the program.
ParsedAll == Len(parsed) = Len(lines) /\ pc # "parse"

Succeeded == result.kind = "output"

\* The number of output words the first n lines occupy.
RECURSIVE PaddedSum(_, _)
PaddedSum(ls, n) ==
    IF n = 0 THEN 0 ELSE PaddedSum(ls, n - 1) + produced_bytes_padded_num(ls[n])

WordsBefore(ls, i) == PaddedSum(ls, i - 1)

\* The addresses of the LabelLines of ls that declare the label l.
DeclaredAt(ls, l) == {ls[i].address : i \in {k \in 1..Len(ls) : ls[k].cls = "LabelLine" /\ ls[k].label = l}}

HasDuplicateLabel(ls) ==
    \E i, j \in 1..Len(ls) :
        i < j /\ ls[i].cls = "LabelLine" /\ ls[j].cls = "LabelLine" /\ ls[i].label = ls[j].label

\* Some InstructionLine argument is a label that no LabelLine declares.
HasUndefinedLabel(ls) ==
    \E i \in 1..Len(ls) : \E k \in 1..Len(ls[i].args) :
        ls[i].args[k].t = "label" /\ DeclaredAt(ls, ls[i].args[k].s) = {}

\* The number of address tokens of an argument text, a run of spaces being
\* one separator.
TokenCount(a) == Cardinality({k \in 1..Len(a) : a[k] # " " /\ (k = 1 \/ a[k - 1] = " ")})

ErrDuplicateLabel == "Label duplicated"

(* ---------------------------------------------------------------------- *)
(* C1                                                                      *)
(* ---------------------------------------------------------------------- *)
\* C1: compile fails with the DuplicateLabel compilation error if and only
\* if two LabelLines of the program declare the same identifier, and a
\* program with a repeated label never yields an output.
C1_DuplicateLabelIff ==
    (pc = "done" /\ ParsedAll) =>
        /\ (result.kind = "CompilationError" /\ result.text = ErrDuplicateLabel)
               <=> HasDuplicateLabel(parsed)
        /\ HasDuplicateLabel(parsed) => ~Succeeded

(* ---------------------------------------------------------------------- *)
(* C2                                                                      *)
(* ---------------------------------------------------------------------- *)
\* C2: compile fails with an error of the CompilationError type that has no
\* 'Line <N>: ' prefix if and only if some InstructionLine argument is a
\* label that no LabelLine of the program declares.
C2_UndefinedLabelIff ==
    (pc = "done" /\ ParsedAll) =>
        ((result.kind = "CompilationError" /\ result.line = 0)
             <=> HasUndefinedLabel(parsed))

(* ---------------------------------------------------------------------- *)
(* C3                                                                      *)
(* ---------------------------------------------------------------------- *)
\* C3: in every program parse accepts the first line has address 0 and each
\* further line has the address of the line before it plus that line's
\* padded word count, whatever the length of the program.
C3_AddressesCumulative ==
    ParsedAll =>
        \A i \in 1..Len(parsed) :
            /\ i = 1 => parsed[i].address = 0
            /\ i < Len(parsed) =>
                   /\ parsed[i + 1].address
                          = parsed[i].address + produced_bytes_padded_num(parsed[i])
                   /\ parsed[i + 1].address >= parsed[i].address

(* ---------------------------------------------------------------------- *)
(* C4                                                                      *)
(* ---------------------------------------------------------------------- *)
AddFooOutput == Output(<<OpWord(OpADD), AddrWord(0), AddrWord(0)>>)

ArgumentWord(i, k) == result.words[WordsBefore(parsed, i) + 1 + k]

OffsetTarget(s) == parse_address_literal(Classified[s].groups[1])

\* C5: an OffsetLine at address A with target T >= A is accepted, occupies
\* exactly T - A words, all zero, and leaves the next line at address T; with
\* T < A parsing fails with the invalid-offset error that names the line.
\* "5", "Offset 3", "7" compiles to [5, 0, 0, 7].
C5_Offset ==
    /\ \A i \in 1..Len(parsed) :
           parsed[i].cls = "OffsetLine" =>
               LET T == parsed[i].offset
                   A == parsed[i].address
               IN /\ OffsetTarget(lines[i]).ok /\ OffsetTarget(lines[i]).val = T
                  /\ T >= A
                  /\ produced_bytes_padded_num(parsed[i]) = T - A
                  /\ IF i < Len(parsed)
                     THEN parsed[i + 1].address = T
                     ELSE Address(line_address) = T
                  /\ Succeeded =>
                         \A k \in 1..(T - A) :
                             result.words[WordsBefore(parsed, i) + k] = NumWord(0)
    /\ (/\ result.kind # "none"
        /\ ~ParsedAll
        /\ Classified[lines[Len(parsed) + 1]].cls = "OffsetLine"
        /\ OffsetTarget(lines[Len(parsed) + 1]).ok) =>
           /\ OffsetTarget(lines[Len(parsed) + 1]).val < Address(line_address)
           /\ result = Exception("CompilationError", Len(parsed) + 1, ErrInvalidOffset)
    /\ (lines = <<TxtFive, TxtOffset3, TxtSeven>> /\ pc = "done") =>
           result = Output(<<NumWord(5), NumWord(0), NumWord(0), NumWord(7)>>)

C5_Witness ==
    /\ lines = <<TxtFive, TxtOffset3, TxtSeven>>
    /\ result = Output(<<NumWord(5), NumWord(0), NumWord(0), NumWord(7)>>)

(* ---------------------------------------------------------------------- *)
(* C6                                                                      *)
(* ---------------------------------------------------------------------- *)
\* C6: a line with a catalog opcode is accepted exactly when the number of
\* its address tokens, runs of spaces counting as one separator, is the
\* arity of the opcode, and then occupies 1 + arity words; with any other
\* number of tokens it fails with the arity error.
C6_ArityBySeparatorRuns ==
    /\ \A i \in 1..Len(parsed) :
           parsed[i].cls = "InstructionLine" =>
               LET g == Classified[lines[i]].groups
               IN /\ TokenCount(g[2]) = instruction_methods[g[1]]
                  /\ produced_bytes_padded_num(parsed[i]) = 1 + instruction_methods[g[1]]
    /\ (/\ result.kind # "none"
        /\ ~ParsedAll
        /\ Classified[lines[Len(parsed) + 1]].cls = "InstructionLine") =>
           LET g == Classified[lines[Len(parsed) + 1]].groups
           IN /\ TokenCount(g[2]) # instruction_methods[g[1]]
              /\ result = Exception("CompilationError", Len(parsed) + 1, ErrArity)

(* ---------------------------------------------------------------------- *)
(* C7                                                                      *)
(* ---------------------------------------------------------------------- *)
\* C7: when parse cannot classify or construct a line, the error carries
\* the 1-based number N of the first such line; lines 1..N-1 are the only
\* lines produced, no line after N is processed and the error is the one
\* line N raises.
C7_FirstErrorLine ==
    /\ (pc = "done" /\ Len(parsed) < Len(lines)) =>
           LET N == Len(parsed) + 1
               r == ParseOne(lines[N], Address(line_address))
           IN /\ result.kind = "CompilationError"
              /\ result.line = N
              /\ ~r.ok /\ result.text = r.err
              /\ line_number = N
              /\ \A k \in 1..(N - 1) : Classified[lines[k]].cls = parsed[k].cls
    /\ result.line # 0 => (pc = "done" /\ result.line = Len(parsed) + 1)
    /\ Len(parsed) < line_number /\ line_number <= Len(parsed) + 1

C7_Witness ==
    /\ result.kind = "CompilationError"
    /\ result.line = 2
    /\ Len(lines) = 3
    /\ Len(parsed) = 1

(* ---------------------------------------------------------------------- *)
(* C8                                                                      *)
(* ---------------------------------------------------------------------- *)
PhaseRank(p) ==
    CASE p = "parse" -> 0 [] p = "pass1" -> 1 [] p = "pass2" -> 2 [] p = "done" -> 3

\* C8: the phases run once each, collect-labels before resolve-and-emit, and
\* no phase is entered again; what the caller gets is an error without
\* output words or the complete word sequence of all lines, never a part of
\* it, and it is final.
C8_PhasesAndNoPartialOutput ==
    [][/\ pc' # pc =>
              /\ PhaseRank(pc') > PhaseRank(pc)
              /\ pc' = "pass2" => pc = "pass1"
              /\ pc' = "pass1" => pc = "parse"
       /\ pc' = pc => index' >= index
       /\ result # NoResult => result' = result
       /\ result' # NoResult =>
              /\ pc' = "done"
              /\ result'.kind = "output" =>
                     /\ pc = "pass2"
                     /\ Len(parsed') = Len(lines')
                     /\ Len(result'.words) = PaddedSum(parsed', Len(parsed'))
              /\ result'.kind # "output" => result'.words = <<>>]_vars

C8_Witness == pc = "done" /\ result.kind = "KeyError" /\ compiled # <<>>

C10_AddressIsOutputIndex ==
    /\ Succeeded =>
           /\ \A i \in 1..Len(parsed) : parsed[i].address = WordsBefore(parsed, i)
           /\ Len(result.words) = line_address
    /\ result.kind # "RuntimeError"

====
